---- MODULE Spec2Model ----
(***************************************************************************)
(* A model of active_alchemy.py: the EngineConnector lazy engine cache and *)
(* the ActiveAlchemy.engine property (threads and locks), the BaseModel    *)
(* active-record operations save / delete / update / create over the       *)
(* session proxies, BaseQuery.get_or_error / first_or_error, and the       *)
(* application hooks installed by init_app.                                *)
(*                                                                         *)
(* Python's None is written "None" where the other values are strings, 0   *)
(* where they are object identities (engines, records, threads) and <<>>   *)
(* where they are tuples.                                                  *)
(***************************************************************************)
EXTENDS Integers, Sequences, FiniteSets, TLC

\* ------------------------------------------------------------------ bounds
NumThreads == 2
MaxChanges == 2
MaxCalls == 3
NumRecords == 2
MaxOps == 3
MaxInits == 2

Threads == 1..NumThreads
URIs == {"sqlite://a", "sqlite://b"}
EchoValues == {"False", "True"}
PoolValues == {"None", "5"}
Records == 1..NumRecords
Attrs == {"name", "email"}
\* the `error` argument of the *_or_error methods: an exception instance, an
\* exception class, or another callable, which raises when called (abort)
ErrorArgs == {"instance", "class", "raiser"}
Responses == {"resp1", "resp2"}
\* the **kwargs a caller passes: a new value for some of the attributes
Kwargs == UNION {[K -> {"v"}] : K \in SUBSET Attrs}

VARIABLES
    \* ActiveAlchemy instance
    uri, options, session, connector, _engine_lock,
    \* EngineConnector instance (meaningful once connector = TRUE)
    _engine, _connected_for, _lock,
    \* one frame per thread inside ActiveAlchemy.engine / get_engine
    pc, direct, l_uri, l_echo, rv,
    \* history: how often the attributes were reassigned (and how often uri
    \* or echo among them), how many calls
    \* were started, the (uri, echo) each create_engine call was made for
    \* (engine i is the i-th created), and the number of EngineConnector
    \* objects constructed
    changes, key_changes, calls, created_for, n_connectors

config == <<uri, options>>
conn == <<connector, _engine, _connected_for>>
locks == <<_engine_lock, _lock>>
frames == <<pc, direct, l_uri, l_echo, rv>>
hist == <<changes, key_changes, calls, created_for, n_connectors>>
vars_engine == <<config, conn, locks, frames, hist>>

VARIABLES
    \* the database rows and the session's pending work
    store, s_new, s_deleted,
    \* the model objects constructed so far (1..objs) and their attributes
    objs, attrs,
    \* the running (or last finished) BaseModel call: which method, on which
    \* record, with which arguments, where it stands, the exception in
    \* flight, the calls it made so far, and how it ended
    m_op, m_self, m_kwargs, m_flags, m_pc, m_exc, m_log, m_out,
    \* how many BaseModel calls were started
    ops,
    \* the exception the try block of save/delete raised, "None" if none
    m_first,
    \* the last BaseQuery *_or_error call and how it ended
    q,
    \* the application object: its decorators, its `databases` attribute,
    \* the hooks this db registered with it, init_app calls so far, and the
    \* last response or exception it handled
    app_after_request, app_on_exception, app_databases,
    hooks_shutdown, hooks_rollback, inits, ev

data == <<store, s_new, s_deleted>>
objects == <<objs, attrs>>
frame == <<m_op, m_self, m_kwargs, m_flags, m_pc, m_exc, m_log, m_out, m_first>>
vars_model == <<data, objects, frame, ops, q>>
app == <<app_after_request, app_on_exception, app_databases>>
hooks == <<hooks_shutdown, hooks_rollback, inits>>
vars_app == <<app, hooks, ev>>

vars == <<vars_engine, session, vars_model, vars_app>>

\* ActiveAlchemy._cleanup_options: the keyword arguments that are not None,
\* convert_unicode dropped.
_cleanup_options(echo, pool_size) == [echo |-> echo, pool_size |-> pool_size]

\* options = {} when there is no uri: options.get(...) is None for every key
NoOptions == [echo |-> "None", pool_size |-> "None"]

\* ------------------------------------------------- ActiveAlchemy.__init__
\* With a uri, __init__ builds the scoped session, which reads self.engine:
\* the connector and the first engine exist when the constructor returns.
\* Without one (db = ActiveAlchemy()), info is None, options is {} and
\* session is None.
InitDb(u, e, p) ==
    /\ uri = u
    /\ options = IF u = "None" THEN NoOptions ELSE _cleanup_options(e, p)
    /\ session = IF u = "None" THEN "None" ELSE "scoped"
    /\ connector = (u # "None")
    /\ n_connectors = IF u = "None" THEN 0 ELSE 1
    /\ _engine = IF u = "None" THEN 0 ELSE 1
    /\ _connected_for = IF u = "None" THEN <<>> ELSE <<u, e>>
    /\ created_for = IF u = "None" THEN <<>> ELSE << <<u, e>> >>
    /\ _engine_lock = 0
    /\ _lock = 0
    /\ pc = [t \in Threads |-> "idle"]
    /\ direct = [t \in Threads |-> FALSE]
    /\ l_uri = [t \in Threads |-> "None"]
    /\ l_echo = [t \in Threads |-> "None"]
    /\ rv = [t \in Threads |-> 0]
    /\ changes = 0
    /\ key_changes = 0
    /\ calls = 0

\* --------------------------------------------- ActiveAlchemy.engine (441)
\* A thread starts reading db.engine.
EngineCall(t) ==
    /\ pc[t] = "idle"
    /\ calls < MaxCalls
    /\ calls' = calls + 1
    /\ pc' = [pc EXCEPT ![t] = "e_lock"]
    /\ direct' = [direct EXCEPT ![t] = FALSE]
    /\ rv' = [rv EXCEPT ![t] = 0]
    /\ UNCHANGED <<config, conn, locks, l_uri, l_echo, changes, key_changes,
                   created_for, n_connectors, session, vars_model, vars_app>>

\* The same statement without mutual exclusion.
EngineAcquire_NoLock(t) ==
    /\ pc[t] = "e_lock"
    /\ _engine_lock' = t
    /\ pc' = [pc EXCEPT ![t] = "e_conn"]
    /\ UNCHANGED <<config, conn, _lock, direct, l_uri, l_echo, rv, hist, session, vars_model, vars_app>>

\* with self._engine_lock: (blocks while another thread holds it)
EngineAcquire(t) ==
    /\ pc[t] = "e_lock"
    /\ _engine_lock = 0
    /\ _engine_lock' = t
    /\ pc' = [pc EXCEPT ![t] = "e_conn"]
    /\ UNCHANGED <<config, conn, _lock, direct, l_uri, l_echo, rv, hist, session, vars_model, vars_app>>

\* connector = self.connector; if connector is None:
EngineReadConnector(t) ==
    /\ pc[t] = "e_conn"
    /\ pc' = [pc EXCEPT ![t] = IF connector THEN "g_lock" ELSE "e_new"]
    /\ UNCHANGED <<config, conn, locks, direct, l_uri, l_echo, rv, hist, session, vars_model, vars_app>>

\* connector = EngineConnector(self); self.connector = connector
\* EngineConnector.__init__ (122-126): no engine, not connected, a fresh lock.
EngineNewConnector(t) ==
    /\ pc[t] = "e_new"
    /\ connector' = TRUE
    /\ n_connectors' = n_connectors + 1
    /\ _engine' = 0
    /\ _connected_for' = <<>>
    /\ _lock' = 0
    /\ pc' = [pc EXCEPT ![t] = "g_lock"]
    /\ UNCHANGED <<config, _engine_lock, direct, l_uri, l_echo, rv, changes,
                   key_changes, calls, created_for, session, vars_model, vars_app>>

\* ------------------------------------------ EngineConnector.get_engine (128)
\* A thread calls db.connector.get_engine() itself, not through db.engine.
GetEngineCall(t) ==
    /\ pc[t] = "idle"
    /\ connector
    /\ calls < MaxCalls
    /\ calls' = calls + 1
    /\ pc' = [pc EXCEPT ![t] = "g_lock"]
    /\ direct' = [direct EXCEPT ![t] = TRUE]
    /\ rv' = [rv EXCEPT ![t] = 0]
    /\ UNCHANGED <<config, conn, locks, l_uri, l_echo, changes, key_changes,
                   created_for, n_connectors, session, vars_model, vars_app>>

\* with self._lock:
GetEngineAcquire(t) ==
    /\ pc[t] = "g_lock"
    /\ _lock = 0
    /\ _lock' = t
    /\ pc' = [pc EXCEPT ![t] = "g_uri"]
    /\ UNCHANGED <<config, conn, _engine_lock, direct, l_uri, l_echo, rv, hist,
                   session, vars_model, vars_app>>

\* uri = self._sa_obj.uri; info = self._sa_obj.info
GetEngineReadUri(t) ==
    /\ pc[t] = "g_uri"
    /\ l_uri' = [l_uri EXCEPT ![t] = uri]
    /\ pc' = [pc EXCEPT ![t] = "g_opts"]
    /\ UNCHANGED <<config, conn, locks, direct, l_echo, rv, hist, session, vars_model, vars_app>>

\* options = self._sa_obj.options; echo = options.get('echo')
GetEngineReadOptions(t) ==
    /\ pc[t] = "g_opts"
    /\ l_echo' = [l_echo EXCEPT ![t] = options.echo]
    /\ pc' = [pc EXCEPT ![t] = "g_cmp"]
    /\ UNCHANGED <<config, conn, locks, direct, l_uri, rv, hist, session, vars_model, vars_app>>

SameKey_UriOnly(t) == _connected_for # <<>> /\ l_uri[t] = _connected_for[1]

\* The test of line 134: (uri, echo) == self._connected_for
SameKey(t) == <<l_uri[t], l_echo[t]>> = _connected_for

\* if (uri, echo) == self._connected_for: return self._engine
GetEngineCompare(t) ==
    /\ pc[t] = "g_cmp"
    /\ IF SameKey(t)
          THEN /\ rv' = [rv EXCEPT ![t] = _engine]
               /\ pc' = [pc EXCEPT ![t] = "g_unlock"]
          ELSE /\ pc' = [pc EXCEPT ![t] = "g_create"]
               /\ rv' = rv
    /\ UNCHANGED <<config, conn, locks, direct, l_uri, l_echo, hist, session, vars_model, vars_app>>

\* self._engine = engine = sqlalchemy.create_engine(info, **options)
\* self._connected_for = (uri, echo); return engine
\* create_engine hands back a new Engine object; rv holds the local `engine`.
GetEngineCreate(t) ==
    /\ pc[t] = "g_create"
    /\ created_for' = Append(created_for, <<l_uri[t], l_echo[t]>>)
    /\ _engine' = Len(created_for) + 1
    /\ _connected_for' = <<l_uri[t], l_echo[t]>>
    /\ rv' = [rv EXCEPT ![t] = Len(created_for) + 1]
    /\ pc' = [pc EXCEPT ![t] = "g_unlock"]
    /\ UNCHANGED <<config, connector, locks, direct, l_uri, l_echo, changes,
                   key_changes, calls, n_connectors, session, vars_model, vars_app>>

\* leaving `with self._lock:`; the frame and its locals are gone
GetEngineRelease(t) ==
    /\ pc[t] = "g_unlock"
    /\ _lock' = IF _lock = t THEN 0 ELSE _lock
    /\ pc' = [pc EXCEPT ![t] = IF direct[t] THEN "idle" ELSE "e_unlock"]
    /\ l_uri' = [l_uri EXCEPT ![t] = "None"]
    /\ l_echo' = [l_echo EXCEPT ![t] = "None"]
    /\ UNCHANGED <<config, conn, _engine_lock, direct, rv, hist, session, vars_model, vars_app>>

\* leaving `with self._engine_lock:`; the property returns get_engine's value
EngineRelease(t) ==
    /\ pc[t] = "e_unlock"
    /\ _engine_lock' = IF _engine_lock = t THEN 0 ELSE _engine_lock
    /\ pc' = [pc EXCEPT ![t] = "idle"]
    /\ UNCHANGED <<config, conn, _lock, direct, l_uri, l_echo, rv, hist, session, vars_model, vars_app>>

\* ------------------------------------------------ attribute reassignment
\* The application assigns db.uri or an entry of db.options; no lock guards
\* these attributes, so it can happen at any point of a running call.
SetUri(u) ==
    /\ changes < MaxChanges
    /\ u # uri
    /\ uri' = u
    /\ changes' = changes + 1
    /\ key_changes' = key_changes + 1
    /\ UNCHANGED <<options, conn, locks, frames, calls, created_for,
                   n_connectors, session, vars_model, vars_app>>

SetEcho(e) ==
    /\ changes < MaxChanges
    /\ e # options.echo
    /\ options' = [options EXCEPT !.echo = e]
    /\ changes' = changes + 1
    /\ key_changes' = key_changes + 1
    /\ UNCHANGED <<uri, conn, locks, frames, calls, created_for, n_connectors,
                   session, vars_model, vars_app>>

SetPoolSize(p) ==
    /\ changes < MaxChanges
    /\ p # options.pool_size
    /\ options' = [options EXCEPT !.pool_size = p]
    /\ changes' = changes + 1
    /\ UNCHANGED <<key_changes, uri, conn, locks, frames, calls, created_for, n_connectors,
                   session, vars_model, vars_app>>

\* ---------------------------------------------------------------- session
\* The scoped session is SQLAlchemy's; what the model keeps of it: add and
\* delete queue work, commit applies the queue to the rows, rollback and
\* remove drop it, and any of the calls may raise.  On a db built without a
\* uri, db.session is None and every use of it raises AttributeError.
NoOutcome == [kind |-> "none", value |-> 0, exc |-> "None"]
NoQuery == [method |-> "none", found |-> 0, error |-> "None", called |-> FALSE,
            kind |-> "none", value |-> "None"]
NoEvent == [kind |-> "none", attached |-> FALSE, given |-> "None", calls |-> 0,
            result |-> "None"]
NoFlags == [delete |-> TRUE, hard_delete |-> FALSE]
EmptyKwargs == [k \in {} |-> "None"]

InitModel ==
    /\ store = {}
    /\ s_new = {}
    /\ s_deleted = {}
    /\ objs = 0
    /\ attrs = [r \in Records |-> [a \in Attrs |-> "None"]]
    /\ m_op = "none"
    /\ m_self = 0
    /\ m_kwargs = EmptyKwargs
    /\ m_flags = NoFlags
    /\ m_pc = "idle"
    /\ m_exc = "None"
    /\ m_log = <<>>
    /\ m_out = NoOutcome
    /\ m_first = "None"
    /\ ops = 0
    /\ q = NoQuery

\* A call starts: a fresh frame.
Begin(op, r, kw, fl, at) ==
    /\ m_pc = "idle"
    /\ ops < MaxOps
    /\ ops' = ops + 1
    /\ m_op' = op
    /\ m_self' = r
    /\ m_kwargs' = kw
    /\ m_flags' = fl
    /\ m_pc' = at
    /\ m_exc' = "None"
    /\ m_log' = <<>>
    /\ m_out' = NoOutcome
    /\ m_first' = "None"
    /\ q' = NoQuery
    /\ UNCHANGED <<vars_engine, session, data, objects, vars_app>>

\* record.save()
SaveCall(r) == r \in 1..objs /\ Begin("save", r, EmptyKwargs, NoFlags, "add")

\* record.delete(delete=..., hard_delete=...)
DeleteCall(r, d, h) ==
    /\ r \in 1..objs
    /\ Begin("delete", r, EmptyKwargs, [delete |-> d, hard_delete |-> h], "sdelete")

\* record.update(**kwargs)
UpdateCall(r, kw) == r \in 1..objs /\ Begin("update", r, kw, NoFlags, "setattr")

\* Model.create(**kwargs)
CreateCall(kw) == objs < NumRecords /\ Begin("create", 0, kw, NoFlags, "init")

\* create (196): cls(**kwargs) builds the record with the given attributes,
\* then .save() is called on it
Construct ==
    /\ m_pc = "init"
    /\ objs' = objs + 1
    /\ m_self' = objs + 1
    /\ attrs' = [attrs EXCEPT ![objs + 1] =
                    [a \in Attrs |-> IF a \in DOMAIN m_kwargs THEN m_kwargs[a] ELSE "None"]]
    /\ m_log' = Append(m_log, "init")
    /\ m_pc' = "add"
    /\ UNCHANGED <<vars_engine, session, data, m_op, m_kwargs, m_flags, m_exc,
                   m_out, m_first, ops, q, vars_app>>

\* An update that goes on to save without assigning anything.
SetAttrs_NoAssign ==
    /\ m_pc = "setattr"
    /\ m_log' = m_log \o [i \in 1..Cardinality(DOMAIN m_kwargs) |-> "setattr"]
    /\ m_pc' = "add"
    /\ UNCHANGED <<vars_engine, session, data, objects, m_op, m_self, m_kwargs,
                   m_flags, m_exc, m_out, m_first, ops, q, vars_app>>

\* update (203-205): for k, v in kwargs.items(): setattr(self, k, v); then
\* self.save()
SetAttrs ==
    /\ m_pc = "setattr"
    /\ attrs' = [attrs EXCEPT ![m_self] =
                    [a \in Attrs |-> IF a \in DOMAIN m_kwargs THEN m_kwargs[a] ELSE @[a]]]
    /\ m_log' = m_log \o [i \in 1..Cardinality(DOMAIN m_kwargs) |-> "setattr"]
    /\ m_pc' = "add"
    /\ UNCHANGED <<vars_engine, session, data, objs, m_op, m_self, m_kwargs,
                   m_flags, m_exc, m_out, m_first, ops, q, vars_app>>

\* What a finished call hands back: save returns self (226), update returns
\* self (206), create returns what save returned (196-197), delete returns
\* what commit returned (240), which is None.
ReturnValue == IF m_op = "delete" THEN 0 ELSE m_self

\* An exception raised inside the try block of save / delete (223, 238).
Caught(e) ==
    /\ m_exc' = e
    /\ m_first' = e
    /\ m_pc' = "except"
    /\ UNCHANGED <<data, m_out>>

\* save (224): self.db.add(self), the proxy for session.add (460-462)
DbAdd(raises) ==
    /\ m_pc = "add"
    /\ m_log' = Append(m_log, "add")
    /\ IF session = "None" THEN Caught("AttributeError(add)")
       ELSE IF raises THEN Caught("add")
       ELSE /\ s_new' = s_new \cup {m_self}
            /\ m_pc' = "commit"
            /\ UNCHANGED <<store, s_deleted, m_exc, m_first, m_out>>
    /\ UNCHANGED <<vars_engine, session, objects, m_op, m_self, m_kwargs,
                   m_flags, ops, q, vars_app>>

\* delete (239): self.db.session.delete(self)
SessionDelete(raises) ==
    /\ m_pc = "sdelete"
    /\ m_log' = Append(m_log, "delete")
    /\ IF session = "None" THEN Caught("AttributeError(delete)")
       ELSE IF raises THEN Caught("delete")
       ELSE /\ s_deleted' = s_deleted \cup {m_self}
            /\ m_pc' = "commit"
            /\ UNCHANGED <<store, s_new, m_exc, m_first, m_out>>
    /\ UNCHANGED <<vars_engine, session, objects, m_op, m_self, m_kwargs,
                   m_flags, ops, q, vars_app>>

\* save (225-226), delete (240): self.db.commit(), the proxy for
\* session.commit (468-470); on success the call returns
DbCommit(raises) ==
    /\ m_pc = "commit"
    /\ m_log' = Append(m_log, "commit")
    /\ IF raises THEN Caught("commit")
       ELSE /\ store' = (store \cup s_new) \ s_deleted
            /\ s_new' = {}
            /\ s_deleted' = {}
            /\ m_out' = [kind |-> "returned", value |-> ReturnValue, exc |-> "None"]
            /\ m_pc' = "idle"
            /\ UNCHANGED <<m_exc, m_first>>
    /\ UNCHANGED <<vars_engine, session, objects, m_op, m_self, m_kwargs,
                   m_flags, ops, q, vars_app>>

\* An except clause that swallows the exception after rolling back.
DbRollback_Swallow(raises) ==
    /\ m_pc = "except"
    /\ m_log' = Append(m_log, "rollback")
    /\ m_out' = [kind |-> "returned", value |-> 0, exc |-> "None"]
    /\ m_pc' = "idle"
    /\ UNCHANGED <<vars_engine, session, data, objects, m_op, m_self, m_kwargs,
                   m_flags, m_exc, m_first, ops, q, vars_app>>

\* save (227-229), delete (241-243): except Exception as e:
\* self.db.rollback(); raise e.  rollback is the proxy for session.rollback
\* (472-474); when it raises, its exception leaves the except clause in
\* place of e.  update and create handle nothing: what save raises is
\* what they raise.
DbRollback(raises) ==
    /\ m_pc = "except"
    /\ m_log' = Append(m_log, "rollback")
    /\ LET e == IF session = "None" THEN "AttributeError(rollback)"
                ELSE IF raises THEN "rollback" ELSE m_exc
       IN  /\ m_exc' = e
           /\ m_out' = [kind |-> "raised", value |-> 0, exc |-> e]
    /\ IF session # "None" /\ ~raises
          THEN s_new' = {} /\ s_deleted' = {} /\ store' = store
          ELSE UNCHANGED data
    /\ m_pc' = "idle"
    /\ UNCHANGED <<vars_engine, session, objects, m_op, m_self, m_kwargs,
                   m_flags, m_first, ops, q, vars_app>>

NextModel ==
    \/ \E r \in Records : SaveCall(r)
    \/ \E r \in Records, d, h \in BOOLEAN : DeleteCall(r, d, h)
    \/ \E r \in Records, kw \in Kwargs : UpdateCall(r, kw)
    \/ \E kw \in Kwargs : CreateCall(kw)
    \/ Construct
    \/ SetAttrs
    \/ \E raises \in BOOLEAN : DbAdd(raises)
    \/ \E raises \in BOOLEAN : SessionDelete(raises)
    \/ \E raises \in BOOLEAN : DbCommit(raises)
    \/ \E raises \in BOOLEAN : DbRollback(raises)

\* ------------------------------------------------------------- BaseQuery
\* Query.get(uid): the row with that primary key, or None
get(uid) == IF uid \in store THEN uid ELSE 0

\* Query.first(): the first row, or None
first == IF store = {} THEN 0 ELSE CHOOSE r \in store : \A o \in store : r <= o

\* isinstance(error, Exception)
IsExceptionInstance(error) == error = "instance"

\* get_or_error (83-88) and first_or_error (94-99) after the lookup:
\*   if rv is None:
\*       if isinstance(error, Exception): raise error
\*       return error()
\*   return rv
\* Calling an exception class builds an instance of it, and that is returned.
OrError(method, found, error) ==
    IF found # 0
       THEN [method |-> method, found |-> found, error |-> error, called |-> FALSE,
             kind |-> "returned", value |-> "record"]
    ELSE IF IsExceptionInstance(error)
       THEN [method |-> method, found |-> 0, error |-> error, called |-> FALSE,
             kind |-> "raised", value |-> "error"]
    ELSE IF error = "class"
       THEN [method |-> method, found |-> 0, error |-> error, called |-> TRUE,
             kind |-> "returned", value |-> "error()"]
    ELSE [method |-> method, found |-> 0, error |-> error, called |-> TRUE,
          kind |-> "raised", value |-> "raised by error()"]

\* Model.query.get_or_error(uid, error)
get_or_error(uid, error) ==
    /\ m_pc = "idle"
    /\ q' = OrError("get_or_error", get(uid), error)
    /\ UNCHANGED <<vars_engine, session, data, objects, frame, ops, vars_app>>

\* Model.query.first_or_error(error)
first_or_error(error) ==
    /\ m_pc = "idle"
    /\ q' = OrError("first_or_error", first, error)
    /\ UNCHANGED <<vars_engine, session, data, objects, frame, ops, vars_app>>

NextQuery ==
    \/ \E uid \in Records, error \in ErrorArgs : get_or_error(uid, error)
    \/ \E error \in ErrorArgs : first_or_error(error)

\* ------------------------------------------------------------ application
\* init_app (415-420): a missing app.databases becomes []; when it is a list
\* this db is appended to it, unless it is in it already
DatabasesAfter(d) == IF d \in {"absent", "empty"} THEN "with_db" ELSE d

\* init_app returns before registering anything when the list held this db
Registers(d) == d # "with_db"

\* set_flask_hooks (434-438): a hook is registered when the app has the
\* decorator for it
HooksAfter(n, d, has) == IF Registers(d) /\ has THEN n + 1 ELSE n

\* "attached to an application having after_request and on_exception"
Attached == inits >= 1 /\ app_after_request /\ app_on_exception

\* db.init_app(app)
init_app ==
    /\ m_pc = "idle"
    /\ inits < MaxInits
    /\ inits' = inits + 1
    /\ app_databases' = DatabasesAfter(app_databases)
    /\ hooks_shutdown' = HooksAfter(hooks_shutdown, app_databases, app_after_request)
    /\ hooks_rollback' = HooksAfter(hooks_rollback, app_databases, app_on_exception)
    /\ UNCHANGED <<vars_engine, session, vars_model, app_after_request,
                   app_on_exception, ev>>

\* The application finished a response and runs its after_request hooks:
\* shutdown (422-424) is self.session.remove(); return response.
\* remove() drops the session and what it had pending.
Respond(response) ==
    /\ m_pc = "idle"
    /\ IF hooks_shutdown = 0
          THEN /\ ev' = [kind |-> "response", attached |-> Attached, given |-> response, calls |-> 0,
                         result |-> response]
               /\ UNCHANGED data
       ELSE IF session = "None"
          THEN /\ ev' = [kind |-> "response", attached |-> Attached, given |-> response, calls |-> 0,
                         result |-> "AttributeError"]
               /\ UNCHANGED data
       ELSE /\ ev' = [kind |-> "response", attached |-> Attached, given |-> response,
                      calls |-> hooks_shutdown, result |-> response]
            /\ s_new' = {}
            /\ s_deleted' = {}
            /\ store' = store
    /\ UNCHANGED <<vars_engine, session, objects, frame, ops, q, app, hooks>>

\* The application caught an exception and runs its on_exception hooks:
\* rollback (426-430) is try: self.session.rollback() except Exception: pass.
\* `calls` counts the session.rollback() calls made.
HandleException(raises) ==
    /\ m_pc = "idle"
    /\ IF hooks_rollback = 0 \/ session = "None"
          THEN /\ ev' = [kind |-> "exception", attached |-> Attached, given |-> "None", calls |-> 0,
                         result |-> "None"]
               /\ UNCHANGED data
          ELSE /\ ev' = [kind |-> "exception", attached |-> Attached, given |-> "None",
                         calls |-> hooks_rollback, result |-> "None"]
               /\ IF raises THEN UNCHANGED data
                            ELSE s_new' = {} /\ s_deleted' = {} /\ store' = store
    /\ UNCHANGED <<vars_engine, session, objects, frame, ops, q, app, hooks>>

NextApp ==
    \/ init_app
    \/ \E response \in Responses : Respond(response)
    \/ \E raises \in BOOLEAN : HandleException(raises)

\* No application is involved.
InitApp0 ==
    /\ app_after_request = FALSE
    /\ app_on_exception = FALSE
    /\ app_databases = "absent"
    /\ hooks_shutdown = 0
    /\ hooks_rollback = 0
    /\ inits = 0
    /\ ev = NoEvent

\* __init__ (371-372): with app given, the constructor ends with init_app(app)
InitWithApp(given) ==
    \E a, o \in BOOLEAN, d \in {"absent", "empty", "not_list"} :
        /\ app_after_request = a
        /\ app_on_exception = o
        /\ app_databases = IF given THEN DatabasesAfter(d) ELSE d
        /\ hooks_shutdown = IF given THEN HooksAfter(0, d, a) ELSE 0
        /\ hooks_rollback = IF given THEN HooksAfter(0, d, o) ELSE 0
        /\ inits = IF given THEN 1 ELSE 0
        /\ ev = NoEvent

InitModelSpec ==
    /\ \E u \in {"None", "sqlite://a"} : InitDb(u, "False", "None")
    /\ InitModel
    /\ InitApp0

ModelSpec == InitModelSpec /\ [][NextModel]_vars

InitEngine ==
    /\ \E u \in {"None", "sqlite://a"}, e \in EchoValues : InitDb(u, e, "None")
    /\ InitModel
    /\ InitApp0

NextEngine ==
    \/ \E t \in Threads : EngineCall(t)
    \/ \E t \in Threads : EngineAcquire(t)
    \/ \E t \in Threads : EngineReadConnector(t)
    \/ \E t \in Threads : EngineNewConnector(t)
    \/ \E t \in Threads : GetEngineCall(t)
    \/ \E t \in Threads : GetEngineAcquire(t)
    \/ \E t \in Threads : GetEngineReadUri(t)
    \/ \E t \in Threads : GetEngineReadOptions(t)
    \/ \E t \in Threads : GetEngineCompare(t)
    \/ \E t \in Threads : GetEngineCreate(t)
    \/ \E t \in Threads : GetEngineRelease(t)
    \/ \E t \in Threads : EngineRelease(t)
    \/ \E u \in URIs : SetUri(u)
    \/ \E e \in EchoValues : SetEcho(e)
    \/ \E p \in PoolValues : SetPoolSize(p)

EngineSpec == InitEngine /\ [][NextEngine]_vars
InitAppSpec ==
    /\ \E u \in {"None", "sqlite://a"} : InitDb(u, "False", "None")
    /\ InitModel
    /\ \E given \in BOOLEAN : InitWithApp(given)

\* Requests that create records.
NextRequests ==
    \/ \E kw \in Kwargs : CreateCall(kw)
    \/ Construct
    \/ \E raises \in BOOLEAN : DbAdd(raises)
    \/ \E raises \in BOOLEAN : DbCommit(raises)
    \/ \E raises \in BOOLEAN : DbRollback(raises)

\* Records are created, and looked up between the calls that create them.
QuerySpec == InitModelSpec /\ [][NextQuery \/ NextRequests]_vars

AppSpec == InitAppSpec /\ [][NextApp \/ NextRequests]_vars
C2_KeyedOnUriEcho ==
    /\ _engine = Len(created_for)
    /\ _connected_for = IF _engine = 0 THEN <<>> ELSE created_for[_engine]
    /\ \A i \in 1..(Len(created_for) - 1) : created_for[i] # created_for[i + 1]
    /\ \A t \in Threads :
          /\ pc[t] = "g_create" => <<l_uri[t], l_echo[t]>> # _connected_for
          /\ pc[t] = "g_unlock" =>
                /\ rv[t] = _engine
                /\ rv[t] # 0
                /\ created_for[rv[t]] = <<l_uri[t], l_echo[t]>>

\* After a reassignment of uri or echo a second engine was created, another
\* option changed, and a later call got the second engine from the cache.
C2_Witness ==
    /\ Len(created_for) >= 2
    /\ options.pool_size # "None"
    /\ \E t1, t2 \in Threads :
          /\ t1 # t2
          /\ pc[t1] = "idle" /\ rv[t1] = Len(created_for)
          /\ pc[t2] = "g_unlock" /\ rv[t2] = Len(created_for)
          /\ changes = MaxChanges
\* How often a call occurs in the log of the running BaseModel call.
Count(call) == Cardinality({i \in 1..Len(m_log) : m_log[i] = call})

\* Exceptions are named after the call that raised them.
RollbackErrors == {"rollback", "AttributeError(rollback)"}

Finished(ops_) == m_op \in ops_ /\ m_pc = "idle" /\ m_out.kind # "none"

\* C3 as stated: a finished save() or delete() whose session operation or
\* commit raised has called rollback exactly once and re-raised that same
\* exception; one in which neither raised has called commit exactly once,
\* rollback never, and save() has returned the record itself.
C3_SameExceptionReraised ==
    Finished({"save", "delete"}) =>
        IF m_first # "None"
           THEN /\ Count("rollback") = 1
                /\ m_out.kind = "raised"
                /\ m_out.exc = m_first
           ELSE /\ Count("commit") = 1
                /\ Count("rollback") = 0
                /\ m_out.kind = "returned"
                /\ m_op = "save" => m_out.value = m_self

\* C3 amended: as C3, but the exception that reaches the caller is the one
\* the try block raised only when rollback returned; when rollback itself
\* raised (as it always does on a db without a session) it is rollback's.
C3_CommitOrRollback ==
    Finished({"save", "delete"}) =>
        IF m_first # "None"
           THEN /\ Count("rollback") = 1
                /\ Count("commit") <= 1
                /\ m_log[Len(m_log)] = "rollback"
                /\ m_out.kind = "raised"
                /\ m_out.exc \notin RollbackErrors => m_out.exc = m_first
                /\ session = "None" => m_out.exc = "AttributeError(rollback)"
                /\ m_out.exc # "None"
           ELSE /\ Count("commit") = 1
                /\ Count("rollback") = 0
                /\ m_out.kind = "returned"
                /\ m_op = "save" => m_out.value = m_self

\* A save() whose commit raised, was rolled back, and re-raised it.
C3_Witness ==
    /\ Finished({"save"})
    /\ m_log = <<"add", "commit", "rollback">>
    /\ m_first = "commit"
    /\ m_out = [kind |-> "raised", value |-> 0, exc |-> "commit"]

\* C4 as stated: a *_or_error call whose lookup found nothing ends by
\* raising, whatever `error` is; one whose lookup found a record returns
\* that record and neither raises nor calls `error`.
C4_RaisesWhenMissing ==
    q.method # "none" =>
        IF q.found = 0
           THEN q.kind = "raised"
           ELSE q.kind = "returned" /\ q.value = "record" /\ ~q.called

\* C5 as stated: delete() without hard_delete never removes the record's
\* row from the store.
C5_SoftDelete ==
    [][(m_op = "delete" /\ ~m_flags.hard_delete /\ m_self \in store)
          => m_self \in store']_vars

\* C6 as stated: once the db was attached to an application with both
\* decorators, every response it finishes calls session.remove() and comes
\* back unchanged, and every exception it handles calls session.rollback(),
\* nothing propagating out of the hook.
C6_HooksRun ==
    ev.attached =>
        /\ ev.kind = "response" => ev.calls >= 1 /\ ev.result = ev.given
        /\ ev.kind = "exception" => ev.calls >= 1 /\ ev.result = "None"

\* C7: update assigns every given attribute before any session call; a
\* finished update or create that returned made exactly one add followed by
\* one commit and returned the record (for create, the newly built one);
\* one that raised made a single rollback, as its last call, and returned
\* nothing.
C7_UpdateCreate ==
    LET n == Cardinality(DOMAIN m_kwargs)
        prefix == IF m_op = "update" THEN [i \in 1..n |-> "setattr"] ELSE <<"init">>
    IN  /\ (m_op = "update" /\ m_pc # "setattr") =>
              /\ \A a \in DOMAIN m_kwargs : attrs[m_self][a] = m_kwargs[a]
              /\ Len(m_log) >= n
              /\ SubSeq(m_log, 1, n) = prefix
              /\ Count("setattr") = n
        /\ Finished({"update", "create"}) =>
              /\ m_self \in 1..objs
              /\ m_op = "create" => m_self = objs
              /\ \A a \in DOMAIN m_kwargs : attrs[m_self][a] = m_kwargs[a]
              /\ IF m_out.kind = "returned"
                    THEN /\ m_log = prefix \o <<"add", "commit">>
                         /\ m_out.value = m_self
                    ELSE /\ m_out.kind = "raised"
                         /\ m_out.exc # "None"
                         /\ m_out.value = 0
                         /\ Count("rollback") = 1
                         /\ m_log[Len(m_log)] = "rollback"
                         /\ Count("add") = 1
                         /\ SubSeq(m_log, 1, Len(prefix) + 1) = prefix \o <<"add">>

\* An update of both attributes of a stored record has returned it.
C7_Witness ==
    /\ Finished({"update"})
    /\ DOMAIN m_kwargs = Attrs
    /\ m_out.kind = "returned"
    /\ m_self \in store
====
